---- MODULE Spec2Model ----
(***************************************************************************)
(* Model of the sipeed-slogic-analyzer streaming acquisition engine        *)
(* (src/hardware/sipeed-slogic-analyzer/protocol.c).                       *)
(*                                                                         *)
(* The driver runs on one event-loop thread.  sipeed_slogic_acquisition_   *)
(* start() is modelled statement group by statement group (pc), with the   *)
(* outcome of every library call it makes (remote_stop, g_malloc,          *)
(* libusb_alloc_transfer, libusb_submit_transfer, remote_run) drawn from   *)
(* the outcomes that call can have.  receive_transfer() is the completion  *)
(* callback libusb invokes from libusb_handle_events_timeout_completed();  *)
(* the only place the driver calls that function once the pool is armed is *)
(* handle_events(), so a callback is one action that is enabled while      *)
(* handle_events is registered as a session source.  A tick that finds the *)
(* abort latch clear has no effect of its own besides delivering such      *)
(* callbacks; a tick that finds it set is the teardown.                    *)
(*                                                                         *)
(* Frequencies are kept in kHz (cur_samplerate / SR_KHZ(1)): every entry   *)
(* of samplerates[] in api.c is a multiple of 1 MHz, so the integer        *)
(* divisions of protocol.c give the same quotients and the products stay   *)
(* inside TLC's integers.                                                  *)
(***************************************************************************)
EXTENDS Integers, Sequences, FiniteSets, TLC

\* ------------------------------------------------------------------ bounds

\* NUM_MAX_TRANSFERS (protocol.h): the capacity of devc->transfers[].
NUM_MAX_TRANSFERS == 3

\* How many times the caller may call sipeed_slogic_acquisition_start() in
\* the specification that lets it call again (RestartSpec).
MaxStartCalls == 2

\* ------------------------------------------------------- program constants

\* 2*16*1024: the rounding granule of per_transfer_nbytes (line 201).
BLOCK_NBYTES == 32768

\* 32*1024: the probe's inner loop runs while per_transfer_nbytes > this.
FLOOR_NBYTES == 32768

\* devc->per_transfer_duration = 125 (ms), line 191.
PLAN_DURATION_MS == 125

Slots == 0 .. (NUM_MAX_TRANSFERS - 1)

\* Configurations the caller can have set through config_set() before
\* start(): cur_samplerate (kHz) from samplerates[], cur_samplechannel from
\* buffersizes[], cur_limit_samples any uint64.
Configs ==
    { [rate_khz |-> 1000, ch |-> 2, limit |-> 0],
      [rate_khz |-> 1000, ch |-> 2, limit |-> 160000],
      [rate_khz |-> 5000, ch |-> 2, limit |-> 400000],
      [rate_khz |-> 2000, ch |-> 4, limit |-> 131072] }

\* libusb_transfer_status values a completion can carry.
Statuses ==
    { "COMPLETED", "TIMED_OUT", "OVERFLOW", "STALL", "NO_DEVICE", "ERROR",
      "CANCELLED" }

VARIABLES
    pc,                      \* position of the event-loop thread: "idle" before
                             \*   start(), "failed" once start() returned an error
                             \*   before arming, "loop" between handlers
    cur_samplerate,          \* devc->cur_samplerate, in kHz
    cur_samplechannel,       \* devc->cur_samplechannel
    cur_limit_samples,       \* devc->cur_limit_samples
    pattern_test,            \* cur_pattern_mode_idx = PATTERN_MODE_TEST_MAX_SPEED
    acq_aborted,             \* devc->acq_aborted
    samples_got_nbytes,      \* devc->samples_got_nbytes
    samples_need_nbytes,     \* devc->samples_need_nbytes
    per_transfer_nbytes,     \* devc->per_transfer_nbytes
    per_transfer_duration,   \* devc->per_transfer_duration (ms)
    num_transfers_used,      \* devc->num_transfers_used (unsigned in C: a
                             \*   negative value here is a wrap-around there)
    num_transfers_completed, \* devc->num_transfers_completed
    transfers,               \* devc->transfers[]: "NULL" | "pending" | "retired"
    source_registered,       \* handle_events is a source of the session
    bufs_live,               \* g_malloc'ed buffers not yet g_free'd
    freed_pending,           \* requests released while still in flight:
                             \*   .probe: the probe's, .slots: the pool's
    packets,                 \* what the consumer has been sent, in order
    forwarded_nbytes,        \* sum of the len arguments of submit_raw_data
    remote_cmds,             \* remote_stop / remote_run calls with outcome
    start_ret,               \* what the last call returned
    probe_result             \* how the probe's loop ended: "none" (not yet),
                             \*   "accepted" (a trial was submitted, line 238),
                             \*   "exhausted" (the while of line 240 ran out),
                             \*   "error" (return SR_ERR_IO)

vars ==
    << pc, cur_samplerate, cur_samplechannel, cur_limit_samples, pattern_test,
       acq_aborted, samples_got_nbytes, samples_need_nbytes,
       per_transfer_nbytes, per_transfer_duration, num_transfers_used,
       num_transfers_completed, transfers, source_registered, bufs_live,
       freed_pending, packets, forwarded_nbytes, remote_cmds, start_ret,
       probe_result >>

config_vars == << cur_samplerate, cur_samplechannel, cur_limit_samples, pattern_test >>

\* The fields of struct dev_context that start() and the callbacks write.
devc_vars ==
    << acq_aborted, samples_got_nbytes, samples_need_nbytes,
       per_transfer_nbytes, per_transfer_duration, num_transfers_used,
       num_transfers_completed, transfers >>

\* devc = g_malloc0(sizeof(struct dev_context)) in scan(): every field 0.
Init ==
    /\ pc = "idle"
    /\ \E c \in Configs :
          /\ cur_samplerate = c.rate_khz
          /\ cur_samplechannel = c.ch
          /\ cur_limit_samples = c.limit
    /\ pattern_test \in BOOLEAN
    /\ acq_aborted = FALSE
    /\ samples_got_nbytes = 0
    /\ samples_need_nbytes = 0
    /\ per_transfer_nbytes = 0
    /\ per_transfer_duration = 0
    /\ num_transfers_used = 0
    /\ num_transfers_completed = 0
    /\ transfers = [i \in Slots |-> "NULL"]
    /\ source_registered = FALSE
    /\ bufs_live = 0
    /\ freed_pending = [probe |-> FALSE, slots |-> {}]
    /\ packets = << >>
    /\ forwarded_nbytes = 0
    /\ remote_cmds = << >>
    /\ start_ret = "none"
    /\ probe_result = "none"

\* Mutant of RoundUpBlock: the rounding of line 201 left out.
RoundUpBlockMissing(x) == x

\* (x + (2*16*1024-1)) & ~(2*16*1024-1)
RoundUpBlock(x) == ((x + (BLOCK_NBYTES - 1)) \div BLOCK_NBYTES) * BLOCK_NBYTES

\* per_transfer_nbytes * SR_KHZ(1) * 8 / (cur_samplerate * cur_samplechannel)
DurationOf(n) == (n * 8) \div (cur_samplerate * cur_samplechannel)

\* per_transfer_nbytes / (cur_samplerate / SR_KHZ(1) * cur_samplechannel / 8)
DurationAfterHalving(n) == n \div ((cur_samplerate * cur_samplechannel) \div 8)

\* ------------------------------------------------ acquisition_start, entry
\* Lines 176-192: remote_stop, then the counters and the planned size.
\* Mutant of EntryEffect: the counters are reset and the size planned (lines
\* 182-192) before the result of remote_stop is looked at.
EntryEffectResetFirst(ok) ==
    /\ samples_got_nbytes' = 0
    /\ samples_need_nbytes' = (cur_limit_samples * cur_samplechannel) \div 8
    /\ per_transfer_duration' = PLAN_DURATION_MS
    /\ per_transfer_nbytes' =
           (PLAN_DURATION_MS * cur_samplerate * cur_samplechannel) \div 8
    /\ start_ret' = IF ok THEN "running" ELSE "ERR"
    /\ pc' = IF ok THEN "probe_alloc" ELSE "failed"
    /\ UNCHANGED << acq_aborted, num_transfers_used, num_transfers_completed,
                    transfers >>

\* if ((ret = remote_stop(sdi)) < 0) return ret; then lines 182-192.
EntryEffect(ok) ==
    IF ~ok
       THEN /\ start_ret' = "ERR"
            /\ pc' = "failed"
            /\ UNCHANGED devc_vars
       ELSE /\ start_ret' = "running"
            /\ pc' = "probe_alloc"
            /\ samples_got_nbytes' = 0
            /\ samples_need_nbytes' = (cur_limit_samples * cur_samplechannel) \div 8
            /\ per_transfer_duration' = PLAN_DURATION_MS
            /\ per_transfer_nbytes' =
                   (PLAN_DURATION_MS * cur_samplerate * cur_samplechannel) \div 8
            /\ UNCHANGED << acq_aborted, num_transfers_used,
                            num_transfers_completed, transfers >>

StartEntry ==
    /\ pc = "idle"
    /\ \E ok \in BOOLEAN :
          /\ remote_cmds' = Append(remote_cmds, [cmd |-> "stop", ok |-> ok])
          /\ EntryEffect(ok)
    /\ UNCHANGED << config_vars, source_registered, bufs_live, freed_pending,
                    packets, forwarded_nbytes, probe_result >>

\* ------------------------------------------------ acquisition_start, probe
\* Lines 195-199: the probe's libusb_alloc_transfer(0).
ProbeAlloc ==
    /\ pc = "probe_alloc"
    /\ \E ok \in BOOLEAN :
          IF ok THEN /\ pc' = "probe_trial"
                     /\ UNCHANGED << start_ret, probe_result >>
                ELSE /\ pc' = "failed"
                     /\ start_ret' = "SR_ERR_IO"
                     /\ probe_result' = "error"
    /\ UNCHANGED << config_vars, devc_vars, source_registered, bufs_live,
                    freed_pending, packets, forwarded_nbytes, remote_cmds >>

\* while (devc->per_transfer_nbytes > 32*1024), line 240, after a `continue`.
ProbeGoesOn(n) == n > FLOOR_NBYTES

\* Lines 200-243: one pass of the inner do-while.  `outcome` is what g_malloc
\* and libusb_submit_transfer do in this pass; `landed` says whether the
\* cancellation of the trial request is delivered within the bounded
\* libusb_handle_events_timeout_completed() of line 233.
ProbeTrial ==
    /\ pc = "probe_trial"
    /\ LET n1 == RoundUpBlock(per_transfer_nbytes)
           d1 == DurationOf(n1)
       IN \E outcome \in { "malloc_fail", "submit_no_mem", "submit_error", "submitted" },
             landed \in BOOLEAN :
             \* g_malloc(0) returns NULL
             /\ (n1 = 0) => (outcome = "malloc_fail")
             /\ (outcome # "submitted") => landed
             /\ CASE outcome \in { "malloc_fail", "submit_no_mem" } ->
                       \* the buffer, if any, is g_free'd again (line 218)
                       /\ per_transfer_nbytes' = n1 \div 2
                       /\ per_transfer_duration' = d1
                       /\ pc' = IF ProbeGoesOn(n1 \div 2) THEN "probe_trial" ELSE "arm"
                       /\ probe_result' =
                              IF ProbeGoesOn(n1 \div 2) THEN probe_result ELSE "exhausted"
                       /\ UNCHANGED << freed_pending, start_ret >>
                  [] outcome = "submit_error" ->
                       /\ per_transfer_nbytes' = n1
                       /\ per_transfer_duration' = d1
                       /\ pc' = "failed"
                       /\ start_ret' = "SR_ERR_IO"
                       /\ probe_result' = "error"
                       /\ UNCHANGED freed_pending
                  [] outcome = "submitted" ->
                       \* cancel, drain once, g_free(transfer->buffer), halve,
                       \* break; then libusb_free_transfer (line 241)
                       /\ per_transfer_nbytes' = n1 \div 2
                       /\ per_transfer_duration' = DurationAfterHalving(n1 \div 2)
                       /\ freed_pending' =
                              [freed_pending EXCEPT !.probe = @ \/ ~landed]
                       /\ probe_result' = "accepted"
                       /\ pc' = "arm"
                       /\ UNCHANGED start_ret
    /\ UNCHANGED << config_vars, acq_aborted, samples_got_nbytes,
                    samples_need_nbytes, num_transfers_used,
                    num_transfers_completed, transfers, source_registered,
                    bufs_live, packets, forwarded_nbytes, remote_cmds >>

\* Lines 246-252: reset of the pool bookkeeping, registration of the tick.
StartArm ==
    /\ pc = "arm"
    /\ acq_aborted' = FALSE
    /\ num_transfers_used' = 0
    /\ num_transfers_completed' = 0
    /\ transfers' = [i \in Slots |-> "NULL"]
    /\ source_registered' = TRUE
    /\ pc' = "fill"
    /\ UNCHANGED << config_vars, samples_got_nbytes, samples_need_nbytes,
                    per_transfer_nbytes, per_transfer_duration, bufs_live,
                    freed_pending, packets, forwarded_nbytes, remote_cmds,
                    start_ret, probe_result >>

\* ------------------------------------------- acquisition_start, initial fill
\* Mutant of FillWanted: the capacity test of line 254 left out.
FillWantedNoCapacity ==
    samples_got_nbytes + num_transfers_used * per_transfer_nbytes
        < samples_need_nbytes

\* Mutant of FillWanted: the test against samples_need_nbytes left out.
FillWantedNoNeed ==
    num_transfers_used < NUM_MAX_TRANSFERS

\* The condition of the while loop of line 254.
FillWanted ==
    /\ num_transfers_used < NUM_MAX_TRANSFERS
    /\ samples_got_nbytes + num_transfers_used * per_transfer_nbytes
           < samples_need_nbytes

\* Mutant of FillPassBuffers: the g_free of line 277 left out.
FillPassBuffersLeak(outcome) ==
    CASE outcome = "malloc_fail" -> bufs_live
      [] outcome = "alloc_fail" -> (bufs_live + 1) - 1
      [] outcome = "submit_fail" -> bufs_live + 1
      [] outcome = "submitted" -> bufs_live + 1

\* Buffers alive after one pass of the fill loop: g_malloc (line 256), and
\* g_free on the two failure paths behind it (lines 265 and 277).
FillPassBuffers(outcome) ==
    CASE outcome = "malloc_fail" -> bufs_live
      [] outcome = "alloc_fail" -> (bufs_live + 1) - 1
      [] outcome = "submit_fail" -> (bufs_live + 1) - 1
      [] outcome = "submitted" -> bufs_live + 1

\* Lines 254-283: one pass of the fill loop, or its exit.  Each of g_malloc,
\* libusb_alloc_transfer and libusb_submit_transfer can fail; a failure
\* releases what the pass allocated and breaks out of the loop.
StartFill ==
    /\ pc = "fill"
    /\ IF FillWanted
          THEN \E outcome \in { "malloc_fail", "alloc_fail", "submit_fail", "submitted" } :
                  /\ bufs_live' = FillPassBuffers(outcome)
                  /\ IF outcome = "submitted"
                        THEN /\ transfers' =
                                   [transfers EXCEPT ![num_transfers_used] = "pending"]
                             /\ num_transfers_used' = num_transfers_used + 1
                             /\ pc' = "fill"
                        ELSE /\ pc' = "notify"
                             /\ UNCHANGED << transfers, num_transfers_used >>
          ELSE /\ pc' = "notify"
               /\ UNCHANGED << transfers, num_transfers_used, bufs_live >>
    /\ UNCHANGED << config_vars, acq_aborted, samples_got_nbytes,
                    samples_need_nbytes, per_transfer_nbytes,
                    per_transfer_duration, num_transfers_completed,
                    source_registered, freed_pending, packets, forwarded_nbytes, remote_cmds,
                    start_ret, probe_result >>

\* Mutant of StartNotify: the stop of lines 292-295 left out, remote_run
\* issued whatever num_transfers_used is.
StartNotifyNoStop ==
    /\ pc = "notify"
    /\ packets' = packets \o << "DF_HEADER", "DF_FRAME_BEGIN" >>
    /\ UNCHANGED forwarded_nbytes
    /\ pc' = "loop"
    /\ \E ok \in BOOLEAN :
          /\ remote_cmds' = Append(remote_cmds, [cmd |-> "run", ok |-> ok])
          /\ start_ret' = IF ok THEN "SR_OK" ELSE "ERR"
          /\ UNCHANGED acq_aborted
    /\ UNCHANGED << config_vars, samples_got_nbytes, samples_need_nbytes,
                    per_transfer_nbytes, per_transfer_duration,
                    num_transfers_used, num_transfers_completed, transfers,
                    source_registered, bufs_live, freed_pending,
                    probe_result >>

\* Lines 286-302: the header and frame-begin packets, then either the
\* immediate stop (nothing in flight) or remote_run.
StartNotify ==
    /\ pc = "notify"
    /\ packets' = packets \o << "DF_HEADER", "DF_FRAME_BEGIN" >>
    /\ UNCHANGED forwarded_nbytes
    /\ pc' = "loop"
    /\ IF num_transfers_used = 0
          THEN /\ acq_aborted' = TRUE
               /\ start_ret' = "SR_OK"
               /\ UNCHANGED remote_cmds
          ELSE \E ok \in BOOLEAN :
                  /\ remote_cmds' = Append(remote_cmds, [cmd |-> "run", ok |-> ok])
                  /\ start_ret' = IF ok THEN "SR_OK" ELSE "ERR"
                  /\ UNCHANGED acq_aborted
    /\ UNCHANGED << config_vars, samples_got_nbytes, samples_need_nbytes,
                    per_transfer_nbytes, per_transfer_duration,
                    num_transfers_used, num_transfers_completed, transfers,
                    source_registered, bufs_live, freed_pending,
                    probe_result >>

\* ----------------------------------------------------------- acquisition_stop
\* Lines 305-315, called by the session while the acquisition is armed.
AcquisitionStop ==
    /\ pc = "loop"
    /\ source_registered
    /\ acq_aborted' = TRUE
    /\ UNCHANGED << pc, config_vars, samples_got_nbytes, samples_need_nbytes,
                    per_transfer_nbytes, per_transfer_duration,
                    num_transfers_used, num_transfers_completed, transfers,
                    source_registered, bufs_live, freed_pending, packets, forwarded_nbytes,
                    remote_cmds, start_ret, probe_result >>

\* ----------------------------------------------------------- receive_transfer
\* Statuses libusb reports for a request nobody cancelled.
DeliveredStatuses == Statuses \ { "CANCELLED" }

\* actual_length values tried for a request of per_transfer_nbytes bytes.
Lengths == { 0, per_transfer_nbytes \div 2, per_transfer_nbytes }

\* Mutant of ClampLength: the clamp of lines 49-50 left out.
ClampLengthMissing(len) == len

\* Lines 49-50: actual_length clamped to the remaining need.
ClampLength(len) ==
    IF len > samples_need_nbytes - samples_got_nbytes
       THEN samples_need_nbytes - samples_got_nbytes
       ELSE len

\* Mutant of ResubmitWanted: the test of line 77 left out.
ResubmitWantedAlways(got, used) == TRUE

\* Mutant of ResubmitWanted: the test made before the decrement of line 76.
ResubmitWantedBeforeRetire(got, used) ==
    got + (used + 1) * per_transfer_nbytes < samples_need_nbytes

\* Line 77, on the values after the byte update and the decrement.
ResubmitWanted(got, used) ==
    got + used * per_transfer_nbytes < samples_need_nbytes

\* Mutant of AfterSwitch: the stall check of lines 101-107 left out.
AfterSwitchNoStall(used, late) ==
    /\ num_transfers_used' = used
    /\ acq_aborted' = IF used = 0 THEN TRUE ELSE acq_aborted
    /\ num_transfers_completed' = num_transfers_completed + 1

\* Mutant of AfterSwitch: the stop on an empty pool (lines 109-111) left out.
AfterSwitchNoStop(used, late) ==
    LET used2 == IF num_transfers_completed # 0 /\ late THEN 0 ELSE used
    IN /\ num_transfers_used' = used2
       /\ acq_aborted' = acq_aborted
       /\ num_transfers_completed' = num_transfers_completed + 1

\* Lines 101-111 and 113: the stall check, the stop on an empty pool and the
\* completion count, given num_transfers_used as the switch left it.
AfterSwitch(used, late) ==
    LET used2 == IF num_transfers_completed # 0 /\ late THEN 0 ELSE used
    IN /\ num_transfers_used' = used2
       /\ acq_aborted' = IF used2 = 0 THEN TRUE ELSE acq_aborted
       /\ num_transfers_completed' = num_transfers_completed + 1

\* Mutant of SubmitAgain: the zero-length break of lines 62-65 left out.
SubmitAgainEmpty(alen, got, used, resubmit_ok) ==
    ResubmitWanted(got, used) /\ resubmit_ok

\* Lines 62-65 and 77-86: whether the request is in flight again when the
\* first case of the switch ends.
SubmitAgain(alen, got, used, resubmit_ok) ==
    alen # 0 /\ ResubmitWanted(got, used) /\ resubmit_ok

\* Mutant of Forwarded: the mode test of line 68 left out.
ForwardedInTestMode(alen) ==
    IF alen # 0 THEN forwarded_nbytes + alen ELSE forwarded_nbytes

\* Lines 62-74: the bytes handed to submit_raw_data so far, after a
\* completion of alen (clamped) bytes: none for a zero-length completion
\* (break of line 64) and none in the max-speed pattern test.
Forwarded(alen) ==
    IF alen # 0 /\ ~pattern_test
        THEN forwarded_nbytes + alen
        ELSE forwarded_nbytes

\* Mutant of ReceiveTransfer: the decrement of the default case (line 97)
\* left out.
ReceiveTransferKeepsCount(i, status, len, late, resubmit_ok) ==
    /\ pc = "loop"
    /\ source_registered
    /\ transfers[i] = "pending"
    /\ IF acq_aborted
          THEN \* line 39: return at once; the request has resolved
               /\ transfers' = [transfers EXCEPT ![i] = "retired"]
               /\ UNCHANGED << acq_aborted, samples_got_nbytes, num_transfers_used,
                               num_transfers_completed, packets, forwarded_nbytes >>
          ELSE CASE status \in { "COMPLETED", "TIMED_OUT" } ->
                    LET alen == ClampLength(len)
                        got == samples_got_nbytes + alen
                        used == num_transfers_used - 1
                        resubmit == SubmitAgain(alen, got, used, resubmit_ok)
                    IN /\ samples_got_nbytes' = got
                       /\ packets' = IF alen # 0 /\ ~pattern_test
                                        THEN Append(packets, "DATA")
                                        ELSE packets
                       /\ forwarded_nbytes' = Forwarded(alen)
                       /\ transfers' = [transfers EXCEPT
                                           ![i] = IF resubmit THEN "pending" ELSE "retired"]
                       /\ AfterSwitch(IF resubmit THEN used + 1 ELSE used, late)
                 [] status \in { "OVERFLOW", "STALL", "NO_DEVICE" } ->
                    /\ transfers' = [transfers EXCEPT ![i] = "retired"]
                    /\ AfterSwitch(0, late)
                    /\ UNCHANGED << samples_got_nbytes, packets, forwarded_nbytes >>
                 [] OTHER ->
                    /\ transfers' = [transfers EXCEPT ![i] = "retired"]
                    /\ AfterSwitch(num_transfers_used, late)
                    /\ UNCHANGED << samples_got_nbytes, packets, forwarded_nbytes >>
    /\ UNCHANGED << pc, config_vars, samples_need_nbytes, per_transfer_nbytes,
                    per_transfer_duration, source_registered, bufs_live,
                    freed_pending, remote_cmds, start_ret, probe_result >>

\* The callback for the request of slot i, with the status and actual_length
\* libusb reports, `late` saying whether the time since the previous
\* completion exceeds (TRANSFERS_DURATION_TOLERANCE + 1) * per_transfer_duration,
\* and `resubmit_ok` what libusb_submit_transfer returns if it is called.
ReceiveTransfer(i, status, len, late, resubmit_ok) ==
    /\ pc = "loop"
    /\ source_registered
    /\ transfers[i] = "pending"
    /\ IF acq_aborted
          THEN \* line 39: return at once; the request has resolved
               /\ transfers' = [transfers EXCEPT ![i] = "retired"]
               /\ UNCHANGED << acq_aborted, samples_got_nbytes, num_transfers_used,
                               num_transfers_completed, packets, forwarded_nbytes >>
          ELSE CASE status \in { "COMPLETED", "TIMED_OUT" } ->
                    LET alen == ClampLength(len)
                        got == samples_got_nbytes + alen
                        used == num_transfers_used - 1
                        resubmit == SubmitAgain(alen, got, used, resubmit_ok)
                    IN /\ samples_got_nbytes' = got
                       /\ packets' = IF alen # 0 /\ ~pattern_test
                                        THEN Append(packets, "DATA")
                                        ELSE packets
                       /\ forwarded_nbytes' = Forwarded(alen)
                       /\ transfers' = [transfers EXCEPT
                                           ![i] = IF resubmit THEN "pending" ELSE "retired"]
                       /\ AfterSwitch(IF resubmit THEN used + 1 ELSE used, late)
                 [] status \in { "OVERFLOW", "STALL", "NO_DEVICE" } ->
                    /\ transfers' = [transfers EXCEPT ![i] = "retired"]
                    /\ AfterSwitch(0, late)
                    /\ UNCHANGED << samples_got_nbytes, packets, forwarded_nbytes >>
                 [] OTHER ->
                    /\ transfers' = [transfers EXCEPT ![i] = "retired"]
                    /\ AfterSwitch(num_transfers_used - 1, late)
                    /\ UNCHANGED << samples_got_nbytes, packets, forwarded_nbytes >>
    /\ UNCHANGED << pc, config_vars, samples_need_nbytes, per_transfer_nbytes,
                    per_transfer_duration, source_registered, bufs_live,
                    freed_pending, remote_cmds, start_ret, probe_result >>

\* actual_length and the resubmission's outcome are inputs of the first case
\* of the switch only.
Completion ==
    \E i \in Slots, status \in DeliveredStatuses, len \in Lengths,
       late \in BOOLEAN, resubmit_ok \in BOOLEAN :
       /\ (status \notin { "COMPLETED", "TIMED_OUT" }) => (len = 0 /\ resubmit_ok)
       /\ ReceiveTransfer(i, status, len, late, resubmit_ok)

\* -------------------------------------------------------------- handle_events
Registered == { i \in Slots : transfers[i] # "NULL" }
Pending == { i \in Slots : transfers[i] = "pending" }

\* Mutant of Teardown: sr_session_source_remove (line 153) left out.
TeardownKeepsSource(landed) ==
    /\ freed_pending' =
           [freed_pending EXCEPT !.slots = @ \cup ({ i \in Slots : transfers[i] = "pending" } \ landed)]
    /\ bufs_live' = bufs_live - Cardinality({ i \in Slots : transfers[i] # "NULL" })
    /\ transfers' = [i \in Slots |-> "NULL"]
    /\ source_registered' = source_registered
    /\ packets' = Append(packets, "DF_END")
    /\ UNCHANGED forwarded_nbytes

\* Mutant of Teardown: std_session_send_df_end (line 154) left out.
TeardownNoEnd(landed) ==
    /\ freed_pending' =
           [freed_pending EXCEPT !.slots = @ \cup ({ i \in Slots : transfers[i] = "pending" } \ landed)]
    /\ bufs_live' = bufs_live - Cardinality({ i \in Slots : transfers[i] # "NULL" })
    /\ transfers' = [i \in Slots |-> "NULL"]
    /\ source_registered' = FALSE
    /\ packets' = packets
    /\ UNCHANGED forwarded_nbytes

\* Lines 133-155.  Every registered request is cancelled; pass i of the second
\* loop drains the events that are ready and then frees slot i.  `landed` is
\* the set of pending requests whose terminal completion is delivered (to
\* receive_transfer, which returns at line 39) before their slot is freed.
Teardown(landed) ==
    /\ freed_pending' = [freed_pending EXCEPT !.slots = @ \cup (Pending \ landed)]
    /\ bufs_live' = bufs_live - Cardinality(Registered)
    /\ transfers' = [i \in Slots |-> "NULL"]
    /\ source_registered' = FALSE
    /\ packets' = Append(packets, "DF_END")
    /\ UNCHANGED forwarded_nbytes

\* Lines 116-160: the periodic tick.
HandleEvents ==
    /\ pc = "loop"
    /\ source_registered
    /\ IF acq_aborted
          THEN \E landed \in SUBSET Pending : Teardown(landed)
          ELSE UNCHANGED << freed_pending, bufs_live, transfers,
                            source_registered, packets, forwarded_nbytes >>
    /\ UNCHANGED << pc, config_vars, acq_aborted, samples_got_nbytes,
                    samples_need_nbytes, per_transfer_nbytes,
                    per_transfer_duration, num_transfers_used,
                    num_transfers_completed, remote_cmds,
                    start_ret, probe_result >>

Next ==
    \/ StartEntry
    \/ ProbeAlloc
    \/ ProbeTrial
    \/ StartArm
    \/ StartFill
    \/ StartNotify
    \/ AcquisitionStop
    \/ Completion
    \/ HandleEvents

Spec == Init /\ [][Next]_vars

\* The session runs every registered source again and again: a tick that
\* has something to do (the teardown) is eventually run.
FairSpec == Spec /\ WF_vars(HandleEvents)

\* The callback of the request in slot i, with whatever libusb reports.
CompletionOf(i) ==
    \E status \in DeliveredStatuses, len \in Lengths,
       late \in BOOLEAN, resubmit_ok \in BOOLEAN :
       /\ (status \notin { "COMPLETED", "TIMED_OUT" }) => (len = 0 /\ resubmit_ok)
       /\ ReceiveTransfer(i, status, len, late, resubmit_ok)

\* The acquisition when the session never calls stop().
NextNoStop ==
    \/ StartEntry
    \/ ProbeAlloc
    \/ ProbeTrial
    \/ StartArm
    \/ StartFill
    \/ StartNotify
    \/ Completion
    \/ HandleEvents

\* Every request in flight resolves (each carries a timeout, lines 79 and
\* 271) and its callback is run by the tick's libusb_handle_events call
\* (line 157); the tick itself keeps firing.
RunSpec ==
    /\ Init
    /\ [][NextNoStop]_vars
    /\ WF_vars(HandleEvents)
    /\ \A i \in Slots : WF_vars(CompletionOf(i))

\* --------------------------------------------- start() called a second time
StartCalls == Cardinality({ k \in 1 .. Len(remote_cmds) : remote_cmds[k].cmd = "stop" })

\* The caller calls sipeed_slogic_acquisition_start() again while the
\* previous acquisition is aborting: the latch is set and handle_events has
\* not run its teardown yet.  Nothing in start() looks at the state of the
\* previous acquisition (lines 162-192).  The call is made in the states in
\* which no request of the previous acquisition is in flight and none has
\* completed, so that no callback of the previous acquisition is left to run
\* into the new one.  A failed remote_stop returns to the event loop.
StartAgain ==
    /\ pc = "loop"
    /\ source_registered
    /\ acq_aborted
    /\ Pending = {}
    /\ num_transfers_completed = 0
    /\ StartCalls < MaxStartCalls
    /\ \E ok \in BOOLEAN :
          /\ remote_cmds' = Append(remote_cmds, [cmd |-> "stop", ok |-> ok])
          /\ IF ok
                THEN EntryEffect(TRUE)
                ELSE /\ start_ret' = "ERR"
                     /\ pc' = "loop"
                     /\ UNCHANGED devc_vars
    /\ UNCHANGED << config_vars, source_registered, bufs_live, freed_pending,
                    packets, forwarded_nbytes, probe_result >>

NextRestart ==
    \/ Next
    \/ StartAgain

\* The engine with a caller that may start again during the abort.
RestartSpec == Init /\ [][NextRestart]_vars

\* ====================================================================== claims

\* C1: within an acquisition samples_got_nbytes never decreases and never
\* exceeds samples_need_nbytes, whatever statuses and actual lengths the
\* completions carry; an overshooting completion is clamped first.
C1_BytesBounded ==
    /\ [](samples_got_nbytes <= samples_need_nbytes)
    /\ [][samples_got_nbytes' >= samples_got_nbytes]_vars

\* C1 witness: the need, which is no multiple of the request size, has been
\* reached exactly, so the last counted completion was clamped.
C1_Witness ==
    /\ samples_need_nbytes > 0
    /\ samples_got_nbytes = samples_need_nbytes
    /\ per_transfer_nbytes > 0
    /\ samples_need_nbytes % (per_transfer_nbytes \div 2) # 0
    /\ num_transfers_completed > 0

\* C2: at most NUM_MAX_TRANSFERS entries of transfers[] are non-empty and
\* num_transfers_used stays within 0 .. NUM_MAX_TRANSFERS.
C2_PoolBounded ==
    /\ Cardinality(Registered) <= NUM_MAX_TRANSFERS
    /\ num_transfers_used >= 0
    /\ num_transfers_used <= NUM_MAX_TRANSFERS

\* C2 witness: the pool is full, after a completion that resubmitted.
C2_Witness ==
    /\ num_transfers_used = NUM_MAX_TRANSFERS
    /\ Pending = Slots
    /\ num_transfers_completed > 0

\* C3: a request or its buffer is released only after the request has
\* resolved: nothing is ever freed while still in flight, in the probe or in
\* the tick's teardown, whenever the cancellations are delivered.
C3_NoReleaseInFlight ==
    /\ ~freed_pending.probe
    /\ freed_pending.slots = {}

EndCount == Cardinality({ k \in 1 .. Len(packets) : packets[k] = "DF_END" })

\* C4: once the abort latch is set, and ticks keep running, eventually every
\* entry of transfers[] is empty and exactly one DF_END has been sent; there
\* is never a second one.
C4_AbortEndsOnce ==
    /\ [](EndCount <= 1)
    /\ acq_aborted ~> (Registered = {} /\ EndCount = 1)

\* C4 witness: an acquisition that counted completions was aborted and torn
\* down, with one DF_END.
C4_Witness ==
    /\ acq_aborted
    /\ num_transfers_completed > 0
    /\ Registered = {}
    /\ ~source_registered
    /\ EndCount = 1

\* The probe has finished without start() returning an error.
ProbePassed == pc \in { "arm", "fill", "notify", "loop" }

\* C5 as claimed: when the probe finishes without an error,
\* per_transfer_nbytes is a multiple of the 32 KiB block and >= 32 KiB.
C5_AcceptedIsBlockMultiple ==
    ProbePassed =>
        /\ per_transfer_nbytes % BLOCK_NBYTES = 0
        /\ per_transfer_nbytes >= FLOOR_NBYTES

\* C5 amended: when the probe finishes without an error, per_transfer_nbytes
\* is a multiple of half the block (16 KiB) and >= half the floor (16 KiB):
\* the accepted size is the rounded trial size halved once more.
C5_AcceptedIsHalfBlockMultiple ==
    ProbePassed =>
        /\ per_transfer_nbytes % (BLOCK_NBYTES \div 2) = 0
        /\ per_transfer_nbytes >= FLOOR_NBYTES \div 2

\* C5 witness: a trial of one block was submitted and its half accepted.
C5_Witness ==
    /\ ProbePassed
    /\ probe_result = "accepted"
    /\ per_transfer_nbytes = BLOCK_NBYTES \div 2

\* C6: when every trial of the probe fails by allocation or out-of-resources
\* until the size reaches the floor, start() returns an I/O error and neither
\* registers the tick, nor fills the pool, nor sends a packet.
C6_ExhaustedProbeIsError ==
    (probe_result = "exhausted") =>
        /\ pc = "failed"
        /\ start_ret = "SR_ERR_IO"
        /\ ~source_registered
        /\ Registered = {}
        /\ packets = << >>

\* C7 as claimed: every entry of transfers[] is empty or has a pending
\* request; no entry stays registered without one.
C7_SlotEmptyOrPending ==
    \A i \in Slots : transfers[i] \in { "NULL", "pending" }

\* C7 amended: every entry of transfers[] is empty or holds exactly one live
\* buffer and at most one pending request; an entry whose request resolved
\* without being resubmitted keeps its buffer, with no pending request, until
\* the teardown empties it.  So the live buffers are exactly those of the
\* non-empty entries.
C7_SlotOwnsOneBuffer ==
    /\ bufs_live = Cardinality(Registered)
    /\ \A i \in Slots : transfers[i] \in { "NULL", "pending", "retired" }
    /\ Cardinality(Pending) <= bufs_live

\* C7 witness: while the latch is clear one entry is registered without a
\* pending request next to one with a pending request.
C7_Witness ==
    /\ ~acq_aborted
    /\ pc = "loop"
    /\ \E i, j \in Slots : transfers[i] = "retired" /\ transfers[j] = "pending"

\* C8: the consumer sees DF_HEADER, DF_FRAME_BEGIN and DF_END at most once
\* each, in that order, and every data chunk after DF_FRAME_BEGIN and before
\* DF_END.
C8_Framing ==
    \A k \in 1 .. Len(packets) :
        /\ (k = 1) <=> (packets[k] = "DF_HEADER")
        /\ (k = 2) <=> (packets[k] = "DF_FRAME_BEGIN")
        /\ (packets[k] = "DF_END") => (k = Len(packets))
        /\ (k > 2) => (packets[k] \in { "DATA", "DF_END" })

\* C8 witness: a complete stream with data in it.
C8_Witness ==
    /\ Len(packets) >= 4
    /\ packets[3] = "DATA"
    /\ packets[Len(packets)] = "DF_END"

\* remote_run was called and failed.
RunFailed == Len(remote_cmds) = 2 /\ ~remote_cmds[2].ok

\* C9: once remote_run has failed, start() has returned an error, no byte is
\* counted and no data is forwarded, whatever the submitted requests report.
C9_RunFailureConsumesNothing ==
    RunFailed =>
        /\ start_ret = "ERR"
        /\ samples_got_nbytes = 0
        /\ \A k \in 1 .. Len(packets) : packets[k] # "DATA"

StopFailedStep == remote_cmds' = Append(remote_cmds, [cmd |-> "stop", ok |-> FALSE])

\* C10: the first thing start() does is remote_stop; when it fails, start()
\* returns the error and that call changes nothing of the session, and
\* afterwards there has been no probe, no tick registration, no request and
\* no packet.
C10_StopFirst ==
    /\ [][ /\ (pc = "idle") =>
                  (Len(remote_cmds') = 1 /\ remote_cmds'[1].cmd = "stop")
           /\ StopFailedStep =>
                  /\ start_ret' = "ERR"
                  /\ pc' = "failed"
                  /\ UNCHANGED << devc_vars, source_registered, bufs_live,
                                  freed_pending, packets, probe_result >> ]_vars
    /\ []((pc = "failed" /\ start_ret = "ERR") =>
              /\ probe_result = "none"
              /\ ~source_registered
              /\ Registered = {}
              /\ packets = << >>
              /\ Len(remote_cmds) = 1)

\* C10 witness: start() has returned after a failed remote_stop.
C10_Witness ==
    /\ pc = "failed"
    /\ start_ret = "ERR"
    /\ remote_cmds = << [cmd |-> "stop", ok |-> FALSE] >>

\* C11: once the abort latch is set, nothing sets it back before the
\* teardown tick has run: no callback, tick, stop() or start().
C11_LatchNeverReverts ==
    [][(acq_aborted /\ source_registered) => acq_aborted']_vars

\* A callback that finds the latch clear and carries a fatal status.
FatalCompletionStep ==
    /\ ~acq_aborted
    /\ \E i \in Slots, late \in BOOLEAN,
          status \in { "OVERFLOW", "STALL", "NO_DEVICE" } :
          ReceiveTransfer(i, status, 0, late, TRUE)

\* C12: a completion with status overflow, stall or no-device leaves
\* num_transfers_used = 0 and the latch set when it returns, whatever the
\* other slots hold; while the latch is set the only packet sent is the one
\* DF_END of the teardown tick, which empties transfers[]; and that DF_END
\* does follow.
C12_FatalStatusAborts ==
    /\ [][FatalCompletionStep => (num_transfers_used' = 0 /\ acq_aborted')]_vars
    /\ [][(acq_aborted /\ packets' # packets) =>
              /\ packets' = Append(packets, "DF_END")
              /\ Registered' = {}
              /\ ~source_registered']_vars
    /\ [](EndCount <= 1)
    /\ (acq_aborted /\ num_transfers_used = 0) ~> (EndCount = 1)

\* C12 witness: the latch is set with num_transfers_used = 0 while other
\* requests are still pending (only a fatal status or a stall gap zeroes
\* the counter with requests in flight), and one completion was counted.
C12_Witness ==
    /\ acq_aborted
    /\ num_transfers_used = 0
    /\ num_transfers_completed = 1
    /\ Cardinality(Pending) >= 2

\* C13: a callback that finds the latch clear leaves its request in flight
\* only if the status is COMPLETED or TIMED_OUT and the clamped
\* actual_length is above 0; otherwise the slot is retired and
\* num_transfers_used goes down by one, or to 0 for a fatal status (and for
\* a stall gap).  Nothing else in the loop puts a request in flight.
C13_ResubmitOnlyWithData ==
    /\ [][\A i \in Slots, status \in DeliveredStatuses, len \in Lengths,
             late \in BOOLEAN, resubmit_ok \in BOOLEAN :
             ( /\ ~acq_aborted
               /\ ReceiveTransfer(i, status, len, late, resubmit_ok)
               /\ ~(status \in { "COMPLETED", "TIMED_OUT" } /\ ClampLength(len) > 0) )
             => /\ transfers'[i] = "retired"
                /\ num_transfers_used' =
                      IF \/ status \in { "OVERFLOW", "STALL", "NO_DEVICE" }
                         \/ (late /\ num_transfers_completed # 0)
                         THEN 0
                         ELSE num_transfers_used - 1]_vars
    /\ [][(pc = "loop" /\ pc' = "loop") =>
             \A i \in Slots : (transfers'[i] = "pending") => (transfers[i] = "pending")]_vars

\* C13 witness: a callback has retired its request without resubmitting it
\* and without setting the latch, before any byte was received: a
\* zero-length or an errored completion.
C13_Witness ==
    /\ ~acq_aborted
    /\ pc = "loop"
    /\ samples_got_nbytes = 0
    /\ num_transfers_completed = 1
    /\ \E i \in Slots : transfers[i] = "retired"
    /\ num_transfers_used >= 1

CeilDiv(a, b) == (a + b - 1) \div b

Min(a, b) == IF a < b THEN a ELSE b

\* The fill loop was left by one of its breaks (lines 257-260, 263-267,
\* 275-280): its condition still holds behind it.
FillBrokeOff ==
    /\ num_transfers_used < NUM_MAX_TRANSFERS
    /\ num_transfers_used * per_transfer_nbytes < samples_need_nbytes

\* C14: when the fill loop of start() ends without a failed allocation or
\* submission, it has submitted min(NUM_MAX_TRANSFERS,
\* ceil(samples_need_nbytes / per_transfer_nbytes)) requests, neither more
\* nor fewer, and no data packet has been sent by then.
C14_InitialFillCount ==
    /\ (pc = "fill") =>
           num_transfers_used <=
               Min(NUM_MAX_TRANSFERS, CeilDiv(samples_need_nbytes, per_transfer_nbytes))
    /\ (pc = "notify" /\ ~FillBrokeOff) =>
           /\ num_transfers_used =
                  Min(NUM_MAX_TRANSFERS, CeilDiv(samples_need_nbytes, per_transfer_nbytes))
           /\ Cardinality(Pending) = num_transfers_used
    /\ (pc \in { "fill", "notify" }) =>
           /\ samples_got_nbytes = 0
           /\ \A k \in 1 .. Len(packets) : packets[k] # "DATA"

\* C14 witness: the fill has ended with the pool at capacity although the
\* requests in flight do not cover the need, as in the scenario
\* (4 * 131072 < 1048576).
C14_Witness ==
    /\ pc = "notify"
    /\ num_transfers_used = NUM_MAX_TRANSFERS
    /\ NUM_MAX_TRANSFERS * per_transfer_nbytes < samples_need_nbytes

\* C15: a callback that finds the latch clear, with status COMPLETED or
\* TIMED_OUT and actual_length > 0, leaves its request in flight exactly
\* when samples_got_nbytes + num_transfers_used * per_transfer_nbytes <
\* samples_need_nbytes holds on the updated byte count and the decremented
\* counter and libusb_submit_transfer succeeds; otherwise the slot stays
\* retired.  Without a stall gap the counter ends at its old value when the
\* request was resubmitted and one below it when not.
C15_ResubmitWhenNeedRemains ==
    [][\A i \in Slots, status \in { "COMPLETED", "TIMED_OUT" },
          len \in Lengths \ { 0 }, late \in BOOLEAN, resubmit_ok \in BOOLEAN :
          (~acq_aborted /\ ReceiveTransfer(i, status, len, late, resubmit_ok))
          => LET wanted ==
                     samples_got_nbytes'
                         + (num_transfers_used - 1) * per_transfer_nbytes
                       < samples_need_nbytes
             IN /\ (transfers'[i] = "pending") <=> (wanted /\ resubmit_ok)
                /\ (transfers'[i] = "retired") <=> ~(wanted /\ resubmit_ok)
                /\ ~(late /\ num_transfers_completed # 0) =>
                       num_transfers_used' =
                           IF wanted /\ resubmit_ok
                               THEN num_transfers_used
                               ELSE num_transfers_used - 1]_vars

\* C15 witness: the first completion delivered a full request, the request
\* was resubmitted and the pool is still at capacity, as in the scenario.
C15_Witness ==
    /\ ~acq_aborted
    /\ num_transfers_completed = 1
    /\ samples_got_nbytes = per_transfer_nbytes
    /\ num_transfers_used = NUM_MAX_TRANSFERS
    /\ Pending = Slots

\* C16: a callback that finds the latch clear, is not the first of the
\* acquisition and comes later than (TRANSFERS_DURATION_TOLERANCE + 1) *
\* per_transfer_duration after the previous one leaves num_transfers_used = 0
\* and the latch set, whatever its status, also when its request has just
\* been resubmitted.
C16_StallGapAborts ==
    [][\A i \in Slots, status \in DeliveredStatuses, len \in Lengths,
          resubmit_ok \in BOOLEAN :
          ( /\ ~acq_aborted
            /\ num_transfers_completed # 0
            /\ ReceiveTransfer(i, status, len, TRUE, resubmit_ok) )
          => (num_transfers_used' = 0 /\ acq_aborted')]_vars

\* C16 witness: the counter is 0 and the latch set after a second completion
\* although every slot holds a request in flight, the completing one
\* included: it delivered data, was resubmitted, and the gap zeroed the
\* counter.
C16_Witness ==
    /\ acq_aborted
    /\ num_transfers_used = 0
    /\ num_transfers_completed = 2
    /\ samples_got_nbytes > 0
    /\ Pending = Slots
    /\ source_registered

\* start() has returned with the tick registered and no request ever put in
\* a slot: the fill loop submitted nothing.
EmptyFill ==
    /\ pc = "loop"
    /\ source_registered
    /\ Registered = {}

\* C17: when the fill loop of start() leaves num_transfers_used = 0, start()
\* sets the latch, returns SR_OK and does not send remote_run; the first
\* thing to happen afterwards is the teardown tick with its DF_END, and it
\* does happen.
C17_EmptyFillEndsAtOnce ==
    /\ [][(pc = "notify" /\ num_transfers_used = 0) =>
             /\ acq_aborted'
             /\ start_ret' = "SR_OK"
             /\ remote_cmds' = remote_cmds
             /\ EmptyFill']_vars
    /\ [](EmptyFill =>
             /\ acq_aborted
             /\ start_ret = "SR_OK"
             /\ \A k \in 1 .. Len(remote_cmds) : remote_cmds[k].cmd # "run")
    /\ [][EmptyFill =>
             /\ packets' = Append(packets, "DF_END")
             /\ ~source_registered']_vars
    /\ EmptyFill ~> (EndCount = 1 /\ ~source_registered)

\* C17 witness: start() has returned with nothing in flight although bytes
\* were needed: the first pass of the fill loop failed.
C17_Witness ==
    /\ EmptyFill
    /\ samples_need_nbytes > 0
    /\ acq_aborted

\* The acquisition runs with k requests because the fill loop broke off:
\* no callback has run yet, and the loop condition of line 254 still holds.
ShortAfterFill(k) ==
    /\ pc = "loop"
    /\ ~acq_aborted
    /\ num_transfers_completed = 0
    /\ k > 0
    /\ Cardinality(Registered) = k
    /\ FillBrokeOff

C19_CounterIsInFlight ==
    (~acq_aborted /\ pc \in { "fill", "notify", "loop" }) =>
        num_transfers_used = Cardinality(Pending)

\* C19 witness: the latch is clear after callbacks have retired some
\* requests and left others in flight, and the counter has followed.
C19_Witness ==
    /\ ~acq_aborted
    /\ pc = "loop"
    /\ num_transfers_completed >= 2
    /\ num_transfers_used = Cardinality(Pending)
    /\ num_transfers_used >= 1
    /\ Cardinality(Registered) > Cardinality(Pending)

\* C20: when stop() is never called and every request in flight resolves,
\* an armed acquisition gets its latch set: the callbacks alone bring
\* num_transfers_used to 0.
C20_LatchEventuallySet ==
    (pc = "loop") ~> acq_aborted

\* C20 witness: the latch is set, with no stop() call, after the callbacks
\* have received every byte needed and retired every request.
C20_Witness ==
    /\ acq_aborted
    /\ samples_need_nbytes > 0
    /\ samples_got_nbytes = samples_need_nbytes
    /\ num_transfers_used = 0
    /\ num_transfers_completed >= 2
    /\ Pending = {}

\* C21: while the latch is clear and num_transfers_used > 0,
\* samples_got_nbytes + num_transfers_used * per_transfer_nbytes <
\* samples_need_nbytes + per_transfer_nbytes: the requests in flight exceed
\* the remaining need by less than one request, during the fill and after
\* every callback.
C21_NoExtraPayloadInFlight ==
    (~acq_aborted /\ num_transfers_used > 0 /\ pc \in { "fill", "notify", "loop" }) =>
        samples_got_nbytes + num_transfers_used * per_transfer_nbytes
            < samples_need_nbytes + per_transfer_nbytes

\* C21 witness: after a completion with data the latch is clear and several
\* requests in flight cover the remaining need, by less than one request.
C21_Witness ==
    /\ ~acq_aborted
    /\ pc = "loop"
    /\ num_transfers_completed >= 1
    /\ samples_got_nbytes > 0
    /\ num_transfers_used >= 2
    /\ samples_got_nbytes + num_transfers_used * per_transfer_nbytes
           >= samples_need_nbytes
    /\ samples_got_nbytes + num_transfers_used * per_transfer_nbytes
           < samples_need_nbytes + per_transfer_nbytes

\* C22: outside the max-speed pattern test the bytes handed to
\* submit_raw_data add up to samples_got_nbytes in every state, hence to at
\* most samples_need_nbytes; in the pattern test nothing is handed over
\* while a completion with data still advances samples_got_nbytes; and once
\* the latch is set neither count changes.
C22_ForwardedMatchesReceived ==
    /\ [](~pattern_test =>
             /\ forwarded_nbytes = samples_got_nbytes
             /\ forwarded_nbytes <= samples_need_nbytes)
    /\ [](pattern_test => forwarded_nbytes = 0)
    /\ [][\A i \in Slots, status \in { "COMPLETED", "TIMED_OUT" },
             len \in Lengths, late \in BOOLEAN, resubmit_ok \in BOOLEAN :
             (~acq_aborted /\ ReceiveTransfer(i, status, len, late, resubmit_ok))
             => samples_got_nbytes' = samples_got_nbytes + ClampLength(len)]_vars
    /\ [][(acq_aborted /\ pc = "loop") =>
             /\ samples_got_nbytes' = samples_got_nbytes
             /\ forwarded_nbytes' = forwarded_nbytes]_vars

\* C22 witness: in the pattern test bytes have been received and none
\* handed over, and the latch is set with requests still in flight, whose
\* callbacks will count nothing.
C22_Witness ==
    /\ pattern_test
    /\ samples_got_nbytes > 0
    /\ forwarded_nbytes = 0
    /\ acq_aborted
    /\ Pending # {}
    /\ source_registered
====
